---- MODULE Spec2Model ----
(***************************************************************************)
(* BoxPacker (src/BoxPacker.py): Article, Box and BoxPacker.pack, which    *)
(* packs articles into boxes by the largest differencing method.           *)
(*                                                                         *)
(* Python objects are modelled with their identity.  A list of articles,   *)
(* a Box and a list of boxes each live in a store and are named by their   *)
(* index in it, so that two names of one object (Box.__init__ keeps the    *)
(* list it is given) are seen as such.  An Article is immutable: it is a   *)
(* record whose id stands for its identity.                                *)
(***************************************************************************)
EXTENDS Integers, Sequences, FiniteSets, TLC

VARIABLES
    lists,                   \* store of Python lists of articles: ref -> Seq(Article)
    box_objs,                \* store of Box objects: ref -> [box_items, total_weight_in_grams]
    box_lists,               \* store of Python lists of boxes: ref -> Seq(box ref)
    articles,                \* pack's argument: the ref of the caller's list
    number_of_boxes,         \* pack's argument
    pc,                      \* where the call of pack is
    sorted_articles,         \* __ldm's local
    next_article,            \* position of the for loop of __ldm in sorted_articles
    partially_packed_boxes,  \* __ldm's priority queue: Seq of WeighedBoxes
    result,                  \* the ref of the list pack returned (0: none)
    rounds,                  \* history: rounds of the while loop of __ldm so far
    last_merge,              \* history: spreads of the last round <<first, second, merged>>
    pre_lists,               \* history: the lists as they were when pack returned
    touched,                 \* history: what the caller changed after the return
    caller_ops               \* number of operations the caller of Box has made

vars == <<lists, box_objs, box_lists, articles, number_of_boxes, pc, sorted_articles,
          next_article, partially_packed_boxes, result, rounds, last_merge,
          pre_lists, touched, caller_ops>>

\* ---------------------------------------------------------------- bounds
MaxArticles == 4
MaxWeight == 3
MaxBoxes == 3
MaxCallerOps == 4

\* The articles of the documented scenario, packed into 2 boxes.
ScenarioWeights == <<900, 800, 700, 600, 500>>

\* ---------------------------------------------------------------- helpers
Min(S) == CHOOSE x \in S : \A y \in S : x <= y
Max(S) == CHOOSE x \in S : \A y \in S : x >= y
Reverse(s) == [i \in 1..Len(s) |-> s[Len(s) + 1 - i]]

\* The three stores as one value, threaded through the operations.
Mem == [lists |-> lists, box_objs |-> box_objs, box_lists |-> box_lists]
SetMem(m) ==
    /\ lists' = m.lists
    /\ box_objs' = m.box_objs
    /\ box_lists' = m.box_lists

\* A new Python list of articles / of boxes: the store grows, ret is its ref.
NewList(m, content) ==
    [mem |-> [m EXCEPT !.lists = Append(@, content)], ret |-> Len(m.lists) + 1]
NewBoxList(m, content) ==
    [mem |-> [m EXCEPT !.box_lists = Append(@, content)], ret |-> Len(m.box_lists) + 1]

\* ---------------------------------------------------------------- Article
Article(id, weight_in_grams) == [id |-> id, weight_in_grams |-> weight_in_grams]
get_weight_in_grams(article) == article.weight_in_grams

\* sum([item.get_weight_in_grams() for item in items])
RECURSIVE SumWeights(_)
SumWeights(items) ==
    IF items = <<>> THEN 0
    ELSE get_weight_in_grams(Head(items)) + SumWeights(Tail(items))

\* ---------------------------------------------------------------- Box
\* Box.__init__: the new Box keeps the very list it is given.
Box(m, box_items) ==
    [mem |-> [m EXCEPT !.box_objs =
                Append(@, [box_items |-> box_items,
                           total_weight_in_grams |-> SumWeights(m.lists[box_items])])],
     ret |-> Len(m.box_objs) + 1]

get_box_items(m, box) == m.box_objs[box].box_items
get_total_weight_in_grams(m, box) == m.box_objs[box].total_weight_in_grams

\* add_article that appends and leaves the cached total as it was.
add_article_no_total(m, box, article) ==
    [m EXCEPT !.lists[m.box_objs[box].box_items] = Append(@, article)]

add_article(m, box, article) ==
    [m EXCEPT !.lists[m.box_objs[box].box_items] = Append(@, article),
              !.box_objs[box].total_weight_in_grams = @ + get_weight_in_grams(article)]

\* list + list makes a new list.
combine_with_other_box(m, self, box2) ==
    LET l == NewList(m, m.lists[m.box_objs[self].box_items]
                          \o m.lists[get_box_items(m, box2)])
    IN  Box(l.mem, l.ret)

\* combine that keeps the first box's articles only.
combine_first_only(m, box1, box2) ==
    LET l == NewList(m, m.lists[get_box_items(m, box1)])
    IN  Box(l.mem, l.ret)

combine(m, box1, box2) ==
    LET l == NewList(m, m.lists[get_box_items(m, box1)]
                          \o m.lists[get_box_items(m, box2)])
    IN  Box(l.mem, l.ret)

\* Box.__lt__
BoxLess(m, self, other) ==
    m.box_objs[self].total_weight_in_grams < m.box_objs[other].total_weight_in_grams

\* ---------------------------------------------------------------- sorted()
\* sorted(..., key=..., reverse=True) on a sequence of [key, item]: descending
\* by key, items of equal key in their original order (the sort is stable).
RECURSIVE InsertDescending(_, _)
InsertDescending(x, s) ==
    IF s = <<>> THEN <<x>>
    ELSE IF Head(s).key >= x.key THEN <<Head(s)>> \o InsertDescending(x, Tail(s))
    ELSE <<x>> \o s

RECURSIVE SortDescending(_, _)
SortDescending(done, rest) ==
    IF rest = <<>> THEN done
    ELSE SortDescending(InsertDescending(Head(rest), done), Tail(rest))

SortedArticles(items) ==
    LET keyed == [i \in 1..Len(items) |->
                    [key |-> get_weight_in_grams(items[i]), item |-> items[i]]]
        s == SortDescending(<<>>, keyed)
    IN  [i \in 1..Len(s) |-> s[i].item]

SortedBoxes(m, boxes) ==
    LET keyed == [i \in 1..Len(boxes) |->
                    [key |-> get_total_weight_in_grams(m, boxes[i]), item |-> boxes[i]]]
        s == SortDescending(<<>>, keyed)
    IN  [i \in 1..Len(s) |-> s[i].item]

\* ---------------------------------------------------------------- heapq
\* list < list: the first position where the two hold different boxes decides
\* (a Box has no __eq__: two boxes are equal when they are one object), by
\* Box.__lt__; with no such position the shorter list is the smaller.
ListLess(m, l1, l2) ==
    LET a == m.box_lists[l1]
        b == m.box_lists[l2]
        common == 1..Min({Len(a), Len(b)})
        differ == {i \in common : a[i] # b[i]}
    IN  IF differ = {} THEN Len(a) < Len(b)
        ELSE BoxLess(m, a[Min(differ)], b[Min(differ)])

ListEqual(m, l1, l2) == l1 = l2 \/ m.box_lists[l1] = m.box_lists[l2]

\* WeighedBoxes < WeighedBoxes: the comparison of two tuples.
TupleLess(m, x, y) ==
    IF x.weight_difference # y.weight_difference
    THEN x.weight_difference < y.weight_difference
    ELSE IF ListEqual(m, x.boxes, y.boxes) THEN FALSE
    ELSE ListLess(m, x.boxes, y.boxes)

\* heapq._siftdown; positions are Python's, from 0.
RECURSIVE siftdown_loop(_, _, _, _, _)
siftdown_loop(m, heap, startpos, pos, newitem) ==
    IF pos > startpos
    THEN LET parentpos == (pos - 1) \div 2
             parent == heap[parentpos + 1]
         IN  IF TupleLess(m, newitem, parent)
             THEN siftdown_loop(m, [heap EXCEPT ![pos + 1] = parent],
                                startpos, parentpos, newitem)
             ELSE [heap EXCEPT ![pos + 1] = newitem]
    ELSE [heap EXCEPT ![pos + 1] = newitem]

siftdown(m, heap, startpos, pos) == siftdown_loop(m, heap, startpos, pos, heap[pos + 1])

\* heapq._siftup: bubble the smaller child up until a leaf, then sift down.
RECURSIVE siftup_loop(_, _, _, _, _)
siftup_loop(m, heap, startpos, pos, newitem) ==
    LET endpos == Len(heap)
        childpos == 2 * pos + 1
        rightpos == childpos + 1
        smaller == IF rightpos < endpos
                      /\ ~TupleLess(m, heap[childpos + 1], heap[rightpos + 1])
                   THEN rightpos ELSE childpos
    IN  IF childpos < endpos
        THEN siftup_loop(m, [heap EXCEPT ![pos + 1] = heap[smaller + 1]],
                         startpos, smaller, newitem)
        ELSE siftdown(m, [heap EXCEPT ![pos + 1] = newitem], startpos, pos)

siftup(m, heap, pos) == siftup_loop(m, heap, pos, pos, heap[pos + 1])

\* heapq.heapify: for i in reversed(range(n // 2)): _siftup(x, i)
RECURSIVE heapify_loop(_, _, _)
heapify_loop(m, heap, i) ==
    IF i < 0 THEN heap ELSE heapify_loop(m, siftup(m, heap, i), i - 1)

heapify(m, heap) == heapify_loop(m, heap, (Len(heap) \div 2) - 1)

\* heapq.heappop of a non-empty heap: [item, heap].
heappop(m, heap) ==
    LET lastelt == heap[Len(heap)]
        rest == SubSeq(heap, 1, Len(heap) - 1)
    IN  IF rest # <<>>
        THEN [item |-> rest[1], heap |-> siftup(m, [rest EXCEPT ![1] = lastelt], 0)]
        ELSE [item |-> lastelt, heap |-> rest]

\* heappush that loses the item.
heappush_dropped(m, heap, item) == heap

heappush(m, heap, item) == siftdown(m, Append(heap, item), 0, Len(heap))

\* ---------------------------------------------------------------- __ldm's local functions
\* [Box([]) for _ in range(k)]: the boxes, each on a list of its own.
RECURSIVE EmptyBoxes(_, _)
EmptyBoxes(m, k) ==
    IF k <= 0 THEN [mem |-> m, ret |-> <<>>]
    ELSE LET l == NewList(m, <<>>)
             b == Box(l.mem, l.ret)
             rest == EmptyBoxes(b.mem, k - 1)
         IN  [mem |-> rest.mem, ret |-> <<b.ret>> \o rest.ret]

Weights(m, boxes) ==
    {get_total_weight_in_grams(m, m.box_lists[boxes][i]) : i \in 1..Len(m.box_lists[boxes])}

\* weigh_boxes with the difference not inverted: max - min.
weigh_boxes_not_inverted(m, boxes) ==
    [weight_difference |-> Max(Weights(m, boxes)) - Min(Weights(m, boxes)),
     boxes |-> boxes]

weigh_boxes(m, boxes) ==
    [weight_difference |-> Min(Weights(m, boxes)) - Max(Weights(m, boxes)),
     boxes |-> boxes]

\* The map, leaving the last pair out.
RECURSIVE MapCombine_short(_, _, _)
MapCombine_short(m, b1, b2) ==
    IF Len(b1) <= 1 \/ Len(b2) <= 1 THEN [mem |-> m, ret |-> <<>>]
    ELSE LET c == combine(m, Head(b1), Head(b2))
             rest == MapCombine_short(c.mem, Tail(b1), Tail(b2))
         IN  [mem |-> rest.mem, ret |-> <<c.ret>> \o rest.ret]

\* map(Box.combine, b1, b2): stops with the shorter of the two.
RECURSIVE MapCombine(_, _, _)
MapCombine(m, b1, b2) ==
    IF b1 = <<>> \/ b2 = <<>> THEN [mem |-> m, ret |-> <<>>]
    ELSE LET c == combine(m, Head(b1), Head(b2))
             rest == MapCombine(c.mem, Tail(b1), Tail(b2))
         IN  [mem |-> rest.mem, ret |-> <<c.ret>> \o rest.ret]

\* combine_boxes without the sort of the result.
combine_boxes_unsorted(m, boxes1, boxes2) ==
    LET reversed == [m EXCEPT !.box_lists[boxes2] = Reverse(@)]
        mapped == MapCombine(reversed, reversed.box_lists[boxes1], reversed.box_lists[boxes2])
    IN  NewBoxList(mapped.mem, mapped.ret)

\* combine_boxes without the reverse: heaviest is paired with heaviest.
combine_boxes_no_reverse(m, boxes1, boxes2) ==
    LET mapped == MapCombine(m, m.box_lists[boxes1], m.box_lists[boxes2])
        combined_boxes == NewBoxList(mapped.mem, mapped.ret)
    IN  NewBoxList(combined_boxes.mem,
                   SortedBoxes(combined_boxes.mem,
                               combined_boxes.mem.box_lists[combined_boxes.ret]))

\* boxes2.reverse() is in place; the map and sorted() each make a new list.
combine_boxes(m, boxes1, boxes2) ==
    LET reversed == [m EXCEPT !.box_lists[boxes2] = Reverse(@)]
        mapped == MapCombine(reversed, reversed.box_lists[boxes1], reversed.box_lists[boxes2])
        combined_boxes == NewBoxList(mapped.mem, mapped.ret)
    IN  NewBoxList(combined_boxes.mem,
                   SortedBoxes(combined_boxes.mem,
                               combined_boxes.mem.box_lists[combined_boxes.ret]))

\* ---------------------------------------------------------------- BoxPacker.pack
InputLists(weights) == <<[i \in 1..Len(weights) |-> Article(i, weights[i])]>>

Inputs ==
    {<<w, n>> : w \in UNION {[1..k -> 1..MaxWeight] : k \in 0..MaxArticles},
                n \in (0 - 1)..MaxBoxes}
    \cup {<<ScenarioWeights, 2>>}

Idle ==
    /\ sorted_articles = <<>>
    /\ next_article = 1
    /\ partially_packed_boxes = <<>>
    /\ result = 0
    /\ rounds = 0
    /\ last_merge = <<>>
    /\ pre_lists = <<>>
    /\ touched = 0 - 1
    /\ caller_ops = 0

Init ==
    /\ \E input \in Inputs :
          /\ lists = InputLists(input[1])
          /\ number_of_boxes = input[2]
    /\ box_objs = <<>>
    /\ box_lists = <<>>
    /\ articles = 1
    /\ pc = "pack"
    /\ Idle

\* if not articles: return [Box([]) for _ in range(number_of_boxes)]
PackEmpty ==
    /\ pc = "pack"
    /\ lists[articles] = <<>>
    /\ LET boxes == EmptyBoxes(Mem, number_of_boxes)
           out == NewBoxList(boxes.mem, boxes.ret)
       IN  /\ SetMem(out.mem)
           /\ result' = out.ret
           /\ pre_lists' = out.mem.lists
    /\ pc' = "returned"
    /\ UNCHANGED <<articles, number_of_boxes, sorted_articles, next_article,
                   partially_packed_boxes, rounds, last_merge, touched, caller_ops>>

\* if number_of_boxes < 1: raise ValueError
PackInvalid ==
    /\ pc = "pack"
    /\ lists[articles] # <<>>
    /\ number_of_boxes < 1
    /\ pc' = "raised"
    /\ UNCHANGED <<lists, box_objs, box_lists, articles, number_of_boxes, sorted_articles,
                   next_article, partially_packed_boxes, result, rounds, last_merge,
                   pre_lists, touched, caller_ops>>

\* if number_of_boxes == 1: return [Box(articles)]
PackSingle ==
    /\ pc = "pack"
    /\ lists[articles] # <<>>
    /\ number_of_boxes = 1
    /\ LET b == Box(Mem, articles)
           out == NewBoxList(b.mem, <<b.ret>>)
       IN  /\ SetMem(out.mem)
           /\ result' = out.ret
           /\ pre_lists' = out.mem.lists
    /\ pc' = "returned"
    /\ UNCHANGED <<articles, number_of_boxes, sorted_articles, next_article,
                   partially_packed_boxes, rounds, last_merge, touched, caller_ops>>

\* else: __ldm(articles, number_of_boxes), up to the for loop.
LdmSort ==
    /\ pc = "pack"
    /\ lists[articles] # <<>>
    /\ number_of_boxes > 1
    /\ sorted_articles' = SortedArticles(lists[articles])
    /\ next_article' = 1
    /\ partially_packed_boxes' = <<>>
    /\ pc' = "seed"
    /\ UNCHANGED <<lists, box_objs, box_lists, articles, number_of_boxes, result, rounds,
                   last_merge, pre_lists, touched, caller_ops>>

\* One pass of the for loop: a list of boxes with the article in the first.
LdmSeed ==
    /\ pc = "seed"
    /\ next_article <= Len(sorted_articles)
    /\ LET empty == EmptyBoxes(Mem, number_of_boxes)
           boxes == NewBoxList(empty.mem, empty.ret)
           added == add_article(boxes.mem, boxes.mem.box_lists[boxes.ret][1],
                                sorted_articles[next_article])
           weighed_boxes == weigh_boxes(added, boxes.ret)
       IN  /\ SetMem(added)
           /\ partially_packed_boxes' = Append(partially_packed_boxes, weighed_boxes)
    /\ next_article' = next_article + 1
    /\ UNCHANGED <<articles, number_of_boxes, pc, sorted_articles, result, rounds,
                   last_merge, pre_lists, touched, caller_ops>>

\* heapq.heapify(partially_packed_boxes)
LdmHeapify ==
    /\ pc = "seed"
    /\ next_article > Len(sorted_articles)
    /\ partially_packed_boxes' = heapify(Mem, partially_packed_boxes)
    /\ pc' = "loop"
    /\ UNCHANGED <<lists, box_objs, box_lists, articles, number_of_boxes, sorted_articles,
                   next_article, result, rounds, last_merge, pre_lists, touched, caller_ops>>

\* One round of the while loop: pop, pop, combine, weigh, push.
LdmMerge ==
    /\ pc = "loop"
    /\ Len(partially_packed_boxes) > 1
    /\ LET first == heappop(Mem, partially_packed_boxes)
           second == heappop(Mem, first.heap)
           combined_boxes == combine_boxes(Mem, first.item.boxes, second.item.boxes)
           weighed_combined_boxes == weigh_boxes(combined_boxes.mem, combined_boxes.ret)
       IN  /\ SetMem(combined_boxes.mem)
           /\ partially_packed_boxes' =
                 heappush(combined_boxes.mem, second.heap, weighed_combined_boxes)
           /\ last_merge' = <<0 - first.item.weight_difference,
                              0 - second.item.weight_difference,
                              0 - weighed_combined_boxes.weight_difference>>
    /\ rounds' = rounds + 1
    /\ UNCHANGED <<articles, number_of_boxes, pc, sorted_articles, next_article, result,
                   pre_lists, touched, caller_ops>>

\* return heapq.heappop(partially_packed_boxes).boxes
LdmReturn ==
    /\ pc = "loop"
    /\ Len(partially_packed_boxes) = 1
    /\ LET last == heappop(Mem, partially_packed_boxes)
       IN  /\ result' = last.item.boxes
           /\ partially_packed_boxes' = last.heap
    /\ pre_lists' = lists
    /\ pc' = "returned"
    /\ UNCHANGED <<lists, box_objs, box_lists, articles, number_of_boxes, sorted_articles,
                   next_article, rounds, last_merge, touched, caller_ops>>

\* ---------------------------------------------------------------- the caller, after pack
FreshId(m) ==
    1 + Max({0} \cup UNION {{m.lists[l][i].id : i \in 1..Len(m.lists[l])}
                              : l \in 1..Len(m.lists)})

\* returned[i].add_article(Article(w))
CallerAddToReturned ==
    /\ pc = "returned"
    /\ \E i \in 1..Len(box_lists[result]), w \in 1..MaxWeight :
          /\ SetMem(add_article(Mem, box_lists[result][i], Article(FreshId(Mem), w)))
          /\ touched' = i
    /\ pc' = "mutated"
    /\ UNCHANGED <<articles, number_of_boxes, sorted_articles, next_article,
                   partially_packed_boxes, result, rounds, last_merge, pre_lists,
                   caller_ops>>

\* articles.append(Article(w)) on the list pack was given
CallerAppendToInput ==
    /\ pc = "returned"
    /\ \E w \in 1..MaxWeight :
          lists' = [lists EXCEPT ![articles] = Append(@, Article(FreshId(Mem), w))]
    /\ touched' = 0
    /\ pc' = "mutated"
    /\ UNCHANGED <<box_objs, box_lists, articles, number_of_boxes, sorted_articles,
                   next_article, partially_packed_boxes, result, rounds, last_merge,
                   pre_lists, caller_ops>>

Next ==
    \/ PackEmpty
    \/ PackInvalid
    \/ PackSingle
    \/ LdmSort
    \/ LdmSeed
    \/ LdmHeapify
    \/ LdmMerge
    \/ LdmReturn
    \/ CallerAddToReturned
    \/ CallerAppendToInput

Spec == Init /\ [][Next]_vars

\* ---------------------------------------------------------------- a caller of Box alone
\* The caller holds every list and every box, and uses Box(items), add_article,
\* combine and combine_with_other_box on them in any order.
BoxInit ==
    /\ lists = <<>>
    /\ box_objs = <<>>
    /\ box_lists = <<>>
    /\ articles = 0
    /\ number_of_boxes = 0
    /\ pc = "caller"
    /\ Idle

CallerFrame ==
    UNCHANGED <<box_lists, articles, number_of_boxes, pc, sorted_articles, next_article,
                partially_packed_boxes, result, rounds, last_merge, pre_lists, touched>>

\* items = [] or items = [Article(w)]
CallerNewList ==
    /\ pc = "caller"
    /\ caller_ops < MaxCallerOps
    /\ \E content \in {<<>>} \cup {<<Article(FreshId(Mem), w)>> : w \in 1..MaxWeight} :
          SetMem(NewList(Mem, content).mem)
    /\ caller_ops' = caller_ops + 1
    /\ CallerFrame

\* Box(items)
CallerBox ==
    /\ pc = "caller"
    /\ caller_ops < MaxCallerOps
    /\ \E l \in 1..Len(lists) : SetMem(Box(Mem, l).mem)
    /\ caller_ops' = caller_ops + 1
    /\ CallerFrame

\* box.add_article(Article(w))
CallerAddArticle ==
    /\ pc = "caller"
    /\ caller_ops < MaxCallerOps
    /\ \E b \in 1..Len(box_objs), w \in 1..MaxWeight :
          SetMem(add_article(Mem, b, Article(FreshId(Mem), w)))
    /\ caller_ops' = caller_ops + 1
    /\ CallerFrame

\* Box.combine(box1, box2)
CallerCombine ==
    /\ pc = "caller"
    /\ caller_ops < MaxCallerOps
    /\ \E b1 \in 1..Len(box_objs), b2 \in 1..Len(box_objs) :
          SetMem(combine(Mem, b1, b2).mem)
    /\ caller_ops' = caller_ops + 1
    /\ CallerFrame

\* box1.combine_with_other_box(box2)
CallerCombineWith ==
    /\ pc = "caller"
    /\ caller_ops < MaxCallerOps
    /\ \E b1 \in 1..Len(box_objs), b2 \in 1..Len(box_objs) :
          SetMem(combine_with_other_box(Mem, b1, b2).mem)
    /\ caller_ops' = caller_ops + 1
    /\ CallerFrame

BoxNext ==
    \/ CallerNewList
    \/ CallerBox
    \/ CallerAddArticle
    \/ CallerCombine
    \/ CallerCombineWith

BoxSpec == BoxInit /\ [][BoxNext]_vars

\* ---------------------------------------------------------------- properties
Returned == box_lists[result]
Items(box) == lists[get_box_items(Mem, box)]
ItemsWhenReturned(box) == pre_lists[get_box_items(Mem, box)]
Total(box) == get_total_weight_in_grams(Mem, box)
InputWeights == [i \in 1..Len(lists[articles]) |-> get_weight_in_grams(lists[articles][i])]
Spread(boxes) ==
    Max({Total(boxes[i]) : i \in 1..Len(boxes)}) - Min({Total(boxes[i]) : i \in 1..Len(boxes)})
Places(article) ==
    {<<i, j>> \in (1..Len(Returned)) \X (1..(Len(lists[articles]) + 1)) :
        j <= Len(Items(Returned[i])) /\ Items(Returned[i])[j] = article}
RECURSIVE SumTotals(_)
SumTotals(boxes) == IF boxes = <<>> THEN 0 ELSE Total(Head(boxes)) + SumTotals(Tail(boxes))
RECURSIVE SumLens(_)
SumLens(boxes) == IF boxes = <<>> THEN 0 ELSE Len(Items(Head(boxes))) + SumLens(Tail(boxes))
IsDescending(boxes) ==
    \A i \in 1..(Len(boxes) - 1) : Total(boxes[i]) >= Total(boxes[i + 1])
LdmCall == number_of_boxes >= 2 /\ sorted_articles # <<>>

\* C1: when pack returns for a count of at least 1, every article of the input is
\* in exactly one returned box, and the boxes hold nothing else.
C1_Partition ==
    (pc = "returned" /\ number_of_boxes >= 1) =>
        /\ \A k \in 1..Len(lists[articles]) : Cardinality(Places(lists[articles][k])) = 1
        /\ SumLens(Returned) = Len(lists[articles])

C1_Witness ==
    /\ pc = "returned"
    /\ number_of_boxes = 3
    /\ rounds = 3
    /\ \E i \in 1..3 : Len(Items(Returned[i])) = 2

\* C2: when pack returns for a count of at least 1, the cached total weights of
\* the returned boxes add up to the weight of the input.
C2_Conservation ==
    (pc = "returned" /\ number_of_boxes >= 1) =>
        SumTotals(Returned) = SumWeights(lists[articles])

C2_Witness ==
    /\ pc = "returned"
    /\ number_of_boxes = 2
    /\ rounds = 2
    /\ SumTotals(Returned) = 3 * MaxWeight

\* C3: pack returns exactly number_of_boxes boxes when that is at least 1, and
\* every list of boxes in the priority queue holds exactly number_of_boxes boxes.
C3_Count ==
    /\ (pc = "returned" /\ number_of_boxes >= 1) => Len(Returned) = number_of_boxes
    /\ \A e \in 1..Len(partially_packed_boxes) :
          Len(box_lists[partially_packed_boxes[e].boxes]) = number_of_boxes

C3_Witness ==
    /\ pc = "loop"
    /\ rounds = 2
    /\ number_of_boxes = 3
    /\ Len(partially_packed_boxes) = 2

\* C4: with a count below 1 a call of pack ends raising the error, whatever the
\* articles, and never returns a list.
C4_InvalidCountRaises ==
    (number_of_boxes < 1 /\ pc # "pack") => pc = "raised"

\* C5: for the articles 900, 800, 700, 600, 500 and 2 boxes the spread of
\* the returned boxes is 0 or 100.
C5_ScenarioSpreadSmall ==
    (pc = "returned" /\ InputWeights = ScenarioWeights /\ number_of_boxes = 2) =>
        Spread(Returned) \in {0, 100}

\* C5, as the code has it: for the articles 900, 800, 700, 600, 500 and 2 boxes
\* the returned boxes weigh 1900 and 1600, a spread of 300.
C5_ScenarioSpread ==
    (pc = "returned" /\ InputWeights = ScenarioWeights /\ number_of_boxes = 2) =>
        /\ Spread(Returned) = 300
        /\ [i \in 1..Len(Returned) |-> Total(Returned[i])] = <<1900, 1600>>

C5_Witness ==
    /\ pc = "returned"
    /\ InputWeights = ScenarioWeights
    /\ number_of_boxes = 2
    /\ rounds = 4

\* C6: after pack returned for a count of at least 1, add_article on one
\* returned box changes neither the caller's list nor another returned box, and
\* an append to the caller's list changes no returned box.
C6_NoSharedList ==
    (pc = "mutated" /\ number_of_boxes >= 1) =>
        /\ touched # 0 => lists[articles] = pre_lists[articles]
        /\ \A i \in 1..Len(Returned) :
              i # touched => Items(Returned[i]) = ItemsWhenReturned(Returned[i])

\* C7: the cached total weight of every box is the sum of the weights of the
\* articles get_box_items gives for it.
C7_CachedTotal ==
    \A box \in 1..Len(box_objs) : Total(box) = SumWeights(Items(box))

\* C8: every list of boxes in the priority queue is in descending order of
\* total weight, while the queue is filled, after heapify and after every round.
C8_QueueSorted ==
    \A e \in 1..Len(partially_packed_boxes) :
        IsDescending(box_lists[partially_packed_boxes[e].boxes])

C8_Witness ==
    /\ pc = "loop"
    /\ rounds >= 2
    /\ \E e \in 1..Len(partially_packed_boxes) :
          LET boxes == box_lists[partially_packed_boxes[e].boxes]
          IN  Len(boxes) = 3 /\ Total(boxes[1]) > Total(boxes[2]) /\ Total(boxes[2]) > Total(boxes[3])
                             /\ Total(boxes[3]) > 0

\* C9: the while loop ends.  Each round makes the queue one shorter, the queue
\* is never empty inside the loop, the queue and the rounds so far add up to the
\* number of articles, the call returns after one round less than there are
\* articles, and what it returns is the one list of boxes left in the queue.
C9_LoopTerminates ==
    /\ [](pc = "loop" =>
            /\ Len(partially_packed_boxes) >= 1
            /\ rounds + Len(partially_packed_boxes) = Len(sorted_articles))
    /\ []((pc = "returned" /\ LdmCall) => rounds = Len(sorted_articles) - 1)
    /\ [][(pc = "loop" /\ pc' = "loop") =>
             Len(partially_packed_boxes') = Len(partially_packed_boxes) - 1]_vars
    /\ [][(pc = "loop" /\ pc' = "returned") =>
             /\ Len(partially_packed_boxes) = 1
             /\ result' = partially_packed_boxes[1].boxes]_vars

C9_Witness ==
    /\ pc = "returned"
    /\ LdmCall
    /\ Len(sorted_articles) = MaxArticles
    /\ rounds = MaxArticles - 1

\* C10: a round of the while loop gives a list of boxes whose spread is at most
\* the larger of the spreads of the two it merged; every list of boxes in the
\* queue, and the one returned, has a spread of at most the heaviest article.
C10_SpreadBound ==
    /\ last_merge # <<>> => last_merge[3] <= Max({last_merge[1], last_merge[2]})
    /\ \A e \in 1..Len(partially_packed_boxes) :
          Spread(box_lists[partially_packed_boxes[e].boxes])
             <= Max({get_weight_in_grams(sorted_articles[i]) : i \in 1..Len(sorted_articles)})
    /\ (pc = "returned" /\ LdmCall) =>
          Spread(Returned)
             <= Max({get_weight_in_grams(sorted_articles[i]) : i \in 1..Len(sorted_articles)})

C10_Witness ==
    /\ pc = "returned"
    /\ LdmCall
    /\ number_of_boxes = 3
    /\ last_merge # <<>>
    /\ last_merge[3] > 0
    /\ last_merge[3] < Max({last_merge[1], last_merge[2]})
    /\ Spread(Returned) = last_merge[3]

====
